---- MODULE Spec2Model ----
(***************************************************************************)
(* Model of the distance functions of src/python/math/lib/__init__.py and  *)
(* of the Video/Image object driven by src/python/test/test_video.py.      *)
(*                                                                         *)
(* Numbers are exact.  A vector is a sequence of integers.  Results that   *)
(* involve a square root are kept symbolically, in a canonical form, so    *)
(* that equality of two results in the model is equality of the reals they *)
(* denote:                                                                 *)
(*   [kind |-> "sqrt", radicand |-> s]            denotes sqrt(s)          *)
(*   [kind |-> "one_minus_cos", sign, num, den]   denotes                  *)
(*                      1 - sign * sqrt(num/den), num/den in lowest terms  *)
(*   [kind |-> "rational", num, den]              denotes num/den, den > 0,*)
(*                                                in lowest terms          *)
(***************************************************************************)
EXTENDS Integers, Sequences, FiniteSets

\* Longest vector / histogram drawn as an input.
MaxLen == 2
\* Largest element drawn as an input; the smallest is -1.
MaxVal == 2

VARIABLES
    fn,       \* the function called
    mode,     \* what the numeric types of the call make of a division
    x1, x2,   \* the two arguments (x1, x2 or h1, h2)
    pc,       \* "start", "loop" (inside chi_square's for), "done"
    i,        \* chi_square: the loop index (0-based, as range() yields it)
    d,        \* chi_square: the accumulator
    divided,  \* chi_square: the denominators of the divisions evaluated so far
    result,   \* the outcome of the call
    iv,       \* test_video: the Video opened on INPUT_VIDEO
    ov,       \* test_video: the Video opened on OUTPUT_VIDEO like iv
    img,      \* test_video: the Image i
    ret       \* test_video: what the last read/write call returned

mathvars == <<fn, mode, x1, x2, pc, i, d, divided, result>>
videovars == <<iv, ov, img, ret>>
vars == <<fn, mode, x1, x2, pc, i, d, divided, result, iv, ov, img, ret>>

----------------------------------------------------------------------------
(* Exact arithmetic *)

Abs(n) == IF n < 0 THEN -n ELSE n

Sgn(n) == IF n < 0 THEN -1 ELSE IF n = 0 THEN 0 ELSE 1

RECURSIVE GCD(_, _)
GCD(a, b) == IF b = 0 THEN Abs(a) ELSE GCD(b, a % Abs(b))

\* The rational n/m (m # 0) in lowest terms with a positive denominator.
Rational(n, m) ==
    LET g == GCD(n, m)
    IN  [kind |-> "rational", num |-> (Sgn(m) * n) \div g, den |-> Abs(m) \div g]

RatAdd(r, s) == Rational(r.num * s.den + s.num * r.den, r.den * s.den)

\* floor(n/m), Python 2's n / m on two ints (m # 0).
FloorDiv(n, m) == IF m > 0 THEN n \div m ELSE (-n) \div (-m)

----------------------------------------------------------------------------
(* Array primitives of the external math library *)

ArraySub(a, b) == [k \in 1..Len(a) |-> a[k] - b[k]]

ArrayAdd(a, b) == [k \in 1..Len(a) |-> a[k] + b[k]]

ArrayMul(a, b) == [k \in 1..Len(a) |-> a[k] * b[k]]

RECURSIVE ArraySum(_)
ArraySum(a) == IF Len(a) = 0 THEN 0 ELSE a[1] + ArraySum(Tail(a))

dot(a, b) == ArraySum(ArrayMul(a, b))

----------------------------------------------------------------------------
(* euklidean_distance *)

euklidean_distance_nosquare(a, b) ==
    [kind |-> "sqrt", radicand |-> ArraySum(ArrayMul(ArraySub(a, b), a))]

euklidean_distance_plus(a, b) ==
    [kind |-> "sqrt",
     radicand |-> ArraySum(ArrayMul(ArrayAdd(a, b), ArrayAdd(a, b)))]

\* math.sqrt(((x1-x2)*(x1-x2)).sum())
euklidean_distance(a, b) ==
    [kind |-> "sqrt",
     radicand |-> ArraySum(ArrayMul(ArraySub(a, b), ArraySub(a, b)))]

----------------------------------------------------------------------------
(* normalized_scalar_product *)

NormProductSum(a, b) == dot(a, a) + dot(b, b)

NormProductLeft(a, b) == dot(a, a) * dot(a, b)

\* numpy.dot(x1,x1) * numpy.dot(x2,x2), the argument of math.sqrt
NormProduct(a, b) == dot(a, a) * dot(b, b)

\* 1. - p / math.sqrt(q).  math.sqrt(q) is 0.0 exactly when q = 0; the
\* division by it raises ZeroDivisionError when numpy.dot hands back a Python
\* number and yields nan (0/0: p = 0 whenever q = 0) when it hands back a
\* numpy scalar: zd names which.
normalized_scalar_product(a, b, zd) ==
    LET p == dot(a, b)
        q == NormProduct(a, b)
        r == Rational(p * p, q)
    IN  IF q = 0
        THEN [kind |-> IF zd = "raise" THEN "ZeroDivisionError" ELSE "nan"]
        ELSE [kind |-> "one_minus_cos", sign |-> Sgn(p), num |-> r.num, den |-> r.den]

----------------------------------------------------------------------------
(* chi_square *)

DiffersAlways(a, b) == TRUE

\* the guard  h1[i] != h2[i]
Differs(a, b) == a # b

ChiNumeratorLinear(a, b) == a - b

ChiNumeratorLeft(a, b) == (a - b) * a

\* (h1[i] - h2[i])**2
ChiNumerator(a, b) == (a - b) * (a - b)

\* h1[i] + h2[i]
ChiDenominator(a, b) == a + b

\* n / m for m # 0.  The file has no "from __future__ import division", so
\* under Python 2 the operator floors when both operands are ints (bins that
\* are integer counts: dm = "floor") and divides exactly otherwise (float
\* bins: dm = "true").
Divide(n, m, dm) ==
    IF dm = "floor" THEN Rational(FloorDiv(n, m), 1) ELSE Rational(n, m)

Zero == Rational(0, 1)

\* The whole of chi_square as a function of its arguments: the outcome of the
\* loop from index k (1-based) on, entered with accumulator acc.
RECURSIVE ChiLoop(_, _, _, _, _)
ChiLoop(h1, h2, dm, k, acc) ==
    IF k > Len(h1) THEN acc
    ELSE IF ~Differs(h1[k], h2[k]) THEN ChiLoop(h1, h2, dm, k + 1, acc)
    ELSE IF ChiDenominator(h1[k], h2[k]) = 0 THEN [kind |-> "ZeroDivisionError"]
    ELSE ChiLoop(h1, h2, dm, k + 1,
                 RatAdd(acc, Divide(ChiNumerator(h1[k], h2[k]),
                                    ChiDenominator(h1[k], h2[k]), dm)))

chi_square(h1, h2, dm) == ChiLoop(h1, h2, dm, 1, Zero)

----------------------------------------------------------------------------
(* The calls *)

Elems == -1..MaxVal

Vectors(n) == [1..n -> Elems]

Functions == {"euklidean_distance", "normalized_scalar_product", "chi_square"}

Modes(f) ==
    IF f = "chi_square" THEN {"floor", "true"}
    ELSE IF f = "normalized_scalar_product" THEN {"raise", "nan"}
    ELSE {"exact"}

NoResult == [kind |-> "none"]

MathInit ==
    /\ fn \in Functions
    /\ mode \in Modes(fn)
    /\ \E n \in 0..MaxLen : x1 \in Vectors(n) /\ x2 \in Vectors(n)
    /\ pc = "start"
    /\ i = 0
    /\ d = Zero
    /\ divided = <<>>
    /\ result = NoResult

CallEuklideanDistance ==
    /\ pc = "start" /\ fn = "euklidean_distance"
    /\ result' = euklidean_distance(x1, x2)
    /\ pc' = "done"
    /\ UNCHANGED <<fn, mode, x1, x2, i, d, divided>>
    /\ UNCHANGED videovars

CallNormalizedScalarProduct ==
    /\ pc = "start" /\ fn = "normalized_scalar_product"
    /\ result' = normalized_scalar_product(x1, x2, mode)
    /\ pc' = "done"
    /\ UNCHANGED <<fn, mode, x1, x2, i, d, divided>>
    /\ UNCHANGED videovars

\* d = 0, and the for statement entered
ChiSquareEnter ==
    /\ pc = "start" /\ fn = "chi_square"
    /\ d' = Zero
    /\ i' = 0
    /\ pc' = "loop"
    /\ UNCHANGED <<fn, mode, x1, x2, divided, result>>
    /\ UNCHANGED videovars

\* one pass of the loop body at index i, the guard false
ChiSquareSkip ==
    /\ pc = "loop" /\ i < Len(x1)
    /\ ~Differs(x1[i + 1], x2[i + 1])
    /\ i' = i + 1
    /\ UNCHANGED <<fn, mode, x1, x2, pc, d, divided, result>>
    /\ UNCHANGED videovars

\* one pass of the loop body at index i, the guard true: the division is
\* evaluated, and raises when the denominator is 0
ChiSquareAdd ==
    /\ pc = "loop" /\ i < Len(x1)
    /\ Differs(x1[i + 1], x2[i + 1])
    /\ LET n == ChiNumerator(x1[i + 1], x2[i + 1])
           m == ChiDenominator(x1[i + 1], x2[i + 1])
       IN  /\ divided' = Append(divided, m)
           /\ IF m = 0
              THEN /\ result' = [kind |-> "ZeroDivisionError"]
                   /\ pc' = "done"
                   /\ UNCHANGED <<i, d>>
              ELSE /\ d' = RatAdd(d, Divide(n, m, mode))
                   /\ i' = i + 1
                   /\ UNCHANGED <<pc, result>>
    /\ UNCHANGED <<fn, mode, x1, x2>>
    /\ UNCHANGED videovars

\* return d
ChiSquareReturn ==
    /\ pc = "loop" /\ i = Len(x1)
    /\ result' = d
    /\ pc' = "done"
    /\ UNCHANGED <<fn, mode, x1, x2, i, d, divided>>
    /\ UNCHANGED videovars

MathNext ==
    \/ CallEuklideanDistance
    \/ CallNormalizedScalarProduct
    \/ ChiSquareEnter
    \/ ChiSquareSkip
    \/ ChiSquareAdd
    \/ ChiSquareReturn

----------------------------------------------------------------------------
(* The Video and Image objects of the external image library, as            *)
(* test_video.py drives them *)

\* Largest frame or image width and height.
MaxDim == 2
\* Number of frames of the input file, and the most frames written.
MaxFrames == 3

Dims == 1..MaxDim

NoVideo == [open |-> FALSE, state |-> "none", width |-> 0, height |-> 0, pos |-> 0]

NoImage == [exists |-> FALSE, width |-> 0, height |-> 0, nplanes |-> 0, created |-> 0]

NoCall == [call |-> "none", value |-> FALSE]

VideoInit ==
    /\ iv = NoVideo
    /\ ov = NoVideo
    /\ img = NoImage
    /\ ret = NoCall

\* iv = torch.ip.Video(INPUT_VIDEO): opened for reading, with the file's
\* frame size
VideoOpenInput ==
    /\ \E w \in Dims, h \in Dims :
         iv' = [open |-> TRUE, state |-> "Read", width |-> w, height |-> h, pos |-> 0]
    /\ ret' = [call |-> "open", value |-> TRUE]
    /\ UNCHANGED <<ov, img>>
    /\ UNCHANGED mathvars

\* ov = torch.ip.Video(OUTPUT_VIDEO, iv): opened for writing, like iv
VideoOpenOutput ==
    /\ iv.open
    /\ ov' = [open |-> TRUE, state |-> "Write", width |-> iv.width,
              height |-> iv.height, pos |-> 0]
    /\ ret' = [call |-> "open", value |-> TRUE]
    /\ UNCHANGED <<iv, img>>
    /\ UNCHANGED mathvars

\* i = torch.ip.Image(w, h, p)
ImageNew ==
    /\ \E w \in Dims, h \in Dims, p \in {1, 3} :
         img' = [exists |-> TRUE, width |-> w, height |-> h, nplanes |-> p,
                 created |-> p]
    /\ ret' = [call |-> "image", value |-> TRUE]
    /\ UNCHANGED <<iv, ov>>
    /\ UNCHANGED mathvars

VideoReadNoResize ==
    /\ iv.open /\ iv.state = "Read" /\ img.exists
    /\ iv.pos < MaxFrames
    /\ iv' = [iv EXCEPT !.pos = @ + 1]
    /\ ret' = [call |-> "read", value |-> TRUE]
    /\ UNCHANGED <<ov, img>>
    /\ UNCHANGED mathvars

\* iv.read(i) with a frame left: the image takes the frame's size and keeps
\* its planes
VideoRead ==
    /\ iv.open /\ iv.state = "Read" /\ img.exists
    /\ iv.pos < MaxFrames
    /\ iv' = [iv EXCEPT !.pos = @ + 1]
    /\ img' = [img EXCEPT !.width = iv.width, !.height = iv.height]
    /\ ret' = [call |-> "read", value |-> TRUE]
    /\ UNCHANGED ov
    /\ UNCHANGED mathvars

\* iv.read(i) past the last frame
VideoReadEnd ==
    /\ iv.open /\ iv.state = "Read" /\ img.exists
    /\ iv.pos = MaxFrames
    /\ ret' = [call |-> "read", value |-> FALSE]
    /\ UNCHANGED <<iv, ov, img>>
    /\ UNCHANGED mathvars

VideoWriteFlipsTemplate ==
    /\ ov.open /\ ov.state = "Write" /\ img.exists
    /\ ov.pos < MaxFrames
    /\ ov' = [ov EXCEPT !.pos = @ + 1]
    /\ iv' = [iv EXCEPT !.state = "Write"]
    /\ ret' = [call |-> "write", value |-> TRUE]
    /\ UNCHANGED img
    /\ UNCHANGED mathvars

\* ov.write(i)
VideoWrite ==
    /\ ov.open /\ ov.state = "Write" /\ img.exists
    /\ ov.pos < MaxFrames
    /\ ov' = [ov EXCEPT !.pos = @ + 1]
    /\ ret' = [call |-> "write", value |-> TRUE]
    /\ UNCHANGED <<iv, img>>
    /\ UNCHANGED mathvars

\* del ov
VideoDelOutput ==
    /\ ov.open
    /\ ov' = NoVideo
    /\ ret' = [call |-> "del", value |-> TRUE]
    /\ UNCHANGED <<iv, img>>
    /\ UNCHANGED mathvars

VideoNext ==
    \/ VideoOpenInput
    \/ VideoOpenOutput
    \/ ImageNew
    \/ VideoRead
    \/ VideoReadEnd
    \/ VideoWrite
    \/ VideoDelOutput

----------------------------------------------------------------------------
(* Specifications *)

\* One call of one of the distance functions, on any pair of equal-length
\* vectors.
Init == MathInit /\ VideoInit

Next == MathNext

Spec == Init /\ [][Next]_vars

\* The Video and Image calls of test_video.py, in any order they allow.
VideoSpecInit ==
    /\ fn = "euklidean_distance" /\ mode = "exact"
    /\ x1 = <<>> /\ x2 = <<>>
    /\ pc = "done" /\ i = 0 /\ d = Zero /\ divided = <<>>
    /\ result = euklidean_distance(<<>>, <<>>)
    /\ VideoInit

VideoSpec == VideoSpecInit /\ [][VideoNext]_vars

----------------------------------------------------------------------------
(* Properties *)

Done(f) == pc = "done" /\ fn = f

NonZeroNorm(a) == dot(a, a) # 0

NonNegative(h) == \A k \in 1..Len(h) : h[k] >= 0

Returned == result.kind \in {"sqrt", "one_minus_cos", "rational"}

Failed == result.kind \in {"ZeroDivisionError", "nan"}

\* The result denotes the number 0.
IsZero(r) ==
    \/ r.kind = "sqrt" /\ r.radicand = 0
    \/ r.kind = "one_minus_cos" /\ r.sign = 1 /\ r.num = r.den
    \/ r.kind = "rational" /\ r.num = 0

\* The loop of chi_square, run step by step, ends in what chi_square gives as
\* a function of its arguments.
LoopIsChiSquare == Done("chi_square") => result = chi_square(x1, x2, mode)

C2_EuklideanIdentity ==
    (Done("euklidean_distance") /\ x1 = x2) => IsZero(result)

C2_Witness ==
    /\ Done("euklidean_distance") /\ x1 = x2
    /\ Len(x1) = 2 /\ x1[1] # 0 /\ x1[2] # x1[1]
    /\ IsZero(result)

C4_ChiSquareNonNegative ==
    (fn = "chi_square" /\ NonNegative(x1) /\ NonNegative(x2))
      => /\ d.kind = "rational" /\ d.num >= 0 /\ d.den > 0
         /\ pc = "done" => (result.kind = "rational" /\ result.num >= 0)

C4_Witness ==
    /\ Done("chi_square") /\ NonNegative(x1) /\ NonNegative(x2)
    /\ Len(divided) = 2
    /\ result.kind = "rational" /\ result.num > 0

\* The sum, over the indices k from n on at which h1 and h2 differ, of the
\* exact quotients (h1[k]-h2[k])^2 / (h1[k]+h2[k]).
RECURSIVE ExactChiSum(_, _, _)
ExactChiSum(h1, h2, n) ==
    IF n > Len(h1) THEN Zero
    ELSE IF h1[n] = h2[n] THEN ExactChiSum(h1, h2, n + 1)
    ELSE RatAdd(Rational((h1[n] - h2[n]) * (h1[n] - h2[n]), h1[n] + h2[n]),
                ExactChiSum(h1, h2, n + 1))

\* C5: what chi_square(h1, h2) returns is exactly the sum, over the indices
\* at which h1 and h2 differ, of (h1[i]-h2[i])^2 / (h1[i]+h2[i]), and 0 when
\* no index differs.
C5_ExactSum ==
    (Done("chi_square") /\ Returned) => result = ExactChiSum(x1, x2, 1)

\* C5 for bins that are not ints (true division): the value returned is the
\* exact sum.
C5_ExactSumTrueDivision ==
    (Done("chi_square") /\ Returned /\ mode = "true")
      => result = ExactChiSum(x1, x2, 1)

\* C6 as stated: no division chi_square evaluates has a zero denominator.
C6_NeverDividesByZero ==
    fn = "chi_square" => \A k \in 1..Len(divided) : divided[k] # 0

\* C6, amended: on histograms with non-negative bins, no division chi_square
\* evaluates has a zero denominator, and the call returns.
C6_NeverDividesByZeroNonNegative ==
    (fn = "chi_square" /\ NonNegative(x1) /\ NonNegative(x2))
      => /\ \A k \in 1..Len(divided) : divided[k] # 0
         /\ pc = "done" => Returned

C6_Witness ==
    /\ Done("chi_square") /\ NonNegative(x1) /\ NonNegative(x2)
    /\ Len(x1) = 2
    /\ x1[1] = 0 /\ x2[1] = 0
    /\ x1[2] = 0 /\ x2[2] # 0
    /\ Len(divided) = 1

C10_ChiSquareSymmetric ==
    /\ (Done("chi_square") /\ Returned) => result = chi_square(x2, x1, mode)
    /\ (fn = "chi_square" /\ x1 = x2)
         => /\ divided = <<>>
            /\ pc = "done" => result = Zero

C10_Witness ==
    /\ Done("chi_square") /\ Returned
    /\ Len(x1) = 2 /\ x1[1] # x2[1] /\ x1[2] # x2[2]
    /\ result.num # 0

====
